---- MODULE Spec2Model ----
(***************************************************************************)
(* Post-processing of the yolact class (target_app/yolact/src/yolact.hpp): *)
(* prior boxes, box decoding, per-class ranking, per-class NMS, the global *)
(* top-K cap and the emission of box_results / mask_results.               *)
(*                                                                         *)
(* Numbers.  Scores are in tenths (0.6f is 6).  Coordinates are in units   *)
(* of 1/UNIT of the image side.  A location offset for a centre is the     *)
(* float itself (a multiple of 10, so that offset*0.1 is whole); an offset *)
(* for a size is counted in multiples of 5*ln 2, so that exp(offset*0.2)   *)
(* is a power of two.  On the inputs drawn below every product, quotient   *)
(* and halving is exact, in the model and in 32-bit floats alike.          *)
(*                                                                         *)
(* C++ vectors are 0-based; sequences here are 1-based, flat buffers are   *)
(* functions on 0..n-1 and are indexed exactly as the code indexes them.   *)
(***************************************************************************)
EXTENDS Integers, Sequences, FiniteSets, TLC

VARIABLES
  sortImpl,         \* how this build's std::sort orders equal keys
  nms_top_k,        \* NMS_TOP_K of this build
  loc_data,         \* host buffer, NUM_PRIORS*4
  conf_data,        \* host buffer, NUM_PRIORS*NUM_CLASSES
  mask_data,        \* host buffer, NUM_PRIORS*PROTO_C
  decoded_bboxes,   \* std::map<int, vector<float>>: prior index -> box
  masks,            \* std::map<int, vector<float>>: prior index -> coefficients
  box_results,      \* std::vector<box_t>
  mask_results,     \* std::vector<std::vector<float>>
  score_index_vec,  \* detect(): per class, the ranked (score, index) pairs
  indices,          \* detect(): per class, the surviving prior indices
  num_det,          \* detect(): total of the per-class survivor counts
  boxes,            \* apply_one_class_nms(): boxes handed to applyNMS
  scores,           \* apply_one_class_nms(): scores handed to applyNMS
  resultmap,        \* apply_one_class_nms(): position -> prior index
  label,            \* class being processed by the NMS loop of detect()
  i,                \* loop counter of apply_one_class_nms()
  pc,               \* position of the run
  decode_calls,     \* history: decode_bbox calls per prior index in this detect()
  first_decoded,    \* history: the box each first decode stored
  tensor_rows,      \* history: rows of the confidence tensor of this image
  prev_results      \* history: results of the run before, when the frame repeats

\* create(): the loops of create_priors() with the constants of the source,
\* and the copies of the per-level output tensors into one host buffer
VARIABLES
  prior_k,          \* create_priors(): k, the pyramid level
  prior_j,          \* create_priors(): j, the row
  prior_i,          \* create_priors(): i, the column
  prior_r,          \* create_priors(): r, the aspect ratio
  prior_ptr,        \* create_priors(): boxes written so far (prior_data++)
  last_prior,       \* history: the box written last
  level_first,      \* history: per level, the index of its first box
  copy_channels,    \* floats per row of the host buffer being filled
  copied,           \* history: (tensor index, first float, floats) of each copy
  prior_pc          \* position of create() and of the copies

prior_vars == << prior_k, prior_j, prior_i, prior_r, prior_ptr, last_prior,
                 level_first, copy_channels, copied, prior_pc >>

\* One detection from decode_bbox() to the overlay of draw_masks()
VARIABLES
  render_idx,       \* the prior index of the detection
  render_loc,       \* its row of the location tensor
  render_box,       \* its box_t as detect() emits it
  img_size,         \* draw_masks(): img.cols, img.rows
  m2_resized,       \* history: m2 as cv::resize left it
  m2,               \* draw_masks(): m2 after the crop
  blended,          \* history: the pixels of img the overlay changed
  render_pc         \* position: decode, draw, done

render_vars == << render_idx, render_loc, render_box, img_size, m2_resized, m2,
                  blended, render_pc >>

aux_vars == << prior_vars, render_vars >>

main_vars == << sortImpl, nms_top_k, loc_data, conf_data, mask_data, decoded_bboxes,
                masks, box_results, mask_results, score_index_vec, indices, num_det,
                boxes, scores, resultmap, label, i, pc, decode_calls,
                first_decoded, tensor_rows, prev_results >>

vars == << sortImpl, nms_top_k, loc_data, conf_data, mask_data, decoded_bboxes, masks,
           box_results, mask_results, score_index_vec, indices, num_det,
           boxes, scores, resultmap, label, i, pc, decode_calls,
           first_decoded, tensor_rows, prev_results, aux_vars >>

----------------------------------------------------------------------------
(* Model constants (yolact.hpp:46-57), scaled to a pyramid of one 1x1 level *)
(* NMS_TOP_K is the variable nms_top_k: builds whose per-class cap is below *)
(* the number of priors (it truncates) and at it (it does not).            *)

PROTO_C == 2
NUM_PRIORS == 3
NUM_CLASSES == 3
NMS_CONF_THRESH == 6
NMS_THRESH_NUM == 1
NMS_THRESH_DEN == 5
KEEP_TOP_K == 2

TopKs == {NUM_PRIORS - 1, NUM_PRIORS}

UNIT == 32

Min(a, b) == IF a < b THEN a ELSE b
Max(a, b) == IF a > b THEN a ELSE b

Empty == << >>

\* The empty std::map
EmptyMap == [k \in {} |-> Empty]

----------------------------------------------------------------------------
(* create_priors                                                           *)

max_size == 8
fmap_dims == << 1 >>
prior_scales == << 2 >>
\* aspect_ratios[k][r] as numerator, denominator: 1, 0.5, 2
aspect_ratios == << <<1, 1>>, <<1, 2>>, <<2, 1>> >>

\* The priors of level k in the order of the j, i, r loops
level_priors(k) ==
  LET F == fmap_dims[k]
  IN [n \in 1..(3 * F * F) |->
        LET m == n - 1
            r == (m % 3) + 1
            cell == m \div 3
            ci == cell % F
            cj == cell \div F
            w == (UNIT * prior_scales[k] * aspect_ratios[r][1])
                   \div (aspect_ratios[r][2] * max_size)
        IN [x |-> (UNIT * (2 * ci + 1)) \div (2 * F),
            y |-> (UNIT * (2 * cj + 1)) \div (2 * F),
            w |-> w,
            h |-> w]]

RECURSIVE priors_from(_)
priors_from(k) ==
  IF k > Len(fmap_dims) THEN Empty ELSE level_priors(k) \o priors_from(k + 1)

create_priors == priors_from(1)

\* prior_data[idx + 1] is the code's prior_data[idx]
prior_data == create_priors

Priors == 0..(NUM_PRIORS - 1)
Classes == 0..(NUM_CLASSES - 1)

----------------------------------------------------------------------------
(* decode_bbox                                                             *)

\* prior size * exp(offset * var[1]), the offset counted in multiples of 5 ln 2
exp_scaled(size, k) ==
  IF k >= 0 THEN size * (2 ^ k) ELSE size \div (2 ^ (0 - k))

\* Faulty variant of clamp01: the lower clamp is left out
clamp01_upper_only(v) == Min(v, UNIT)

\* std::max(std::min(v, 1.f), 0.f)
clamp01(v) == Max(Min(v, UNIT), 0)

\* The vector decode_bbox stores for prior idx from the offsets bbox
decode_bbox(bbox, idx) ==
  LET prior_box == prior_data[idx + 1]
      cx == prior_box.x + (bbox[1] * prior_box.w) \div 10
      cy == prior_box.y + (bbox[2] * prior_box.h) \div 10
      bw == exp_scaled(prior_box.w, bbox[3])
      bh == exp_scaled(prior_box.h, bbox[4])
      xmin == clamp01(cx - bw \div 2)
      ymin == clamp01(cy - bh \div 2)
      xmax == clamp01(cx + bw \div 2)
      ymax == clamp01(cy + bh \div 2)
      ncx == (xmin + xmax) \div 2
      ncy == (ymin + ymax) \div 2
  IN << ncx, ncy, (xmax - ncx) * 2, (ymax - ncy) * 2 >>

\* &loc_data[idx*4]
loc_row(loc, idx) == [c \in 1..4 |-> loc[idx * 4 + (c - 1)]]

\* Faulty variant of mask_row: the row stride is left out
mask_row_unstrided(mask, idx) == [c \in 1..PROTO_C |-> mask[idx + (c - 1)]]

\* mask_data[idx*PROTO_C + c], c = 0..PROTO_C-1, pushed onto the moved-from,
\* hence empty, local vector
mask_row(mask, idx) == [c \in 1..PROTO_C |-> mask[idx * PROTO_C + (c - 1)]]

----------------------------------------------------------------------------
(* Sorting                                                                 *)

\* e placed behind every element of the descending acc whose key is >= e's
insert_after_equal(acc, e) ==
  LET k == Cardinality({j \in 1..Len(acc) : acc[j][1] >= e[1]})
  IN SubSeq(acc, 1, k) \o << e >> \o SubSeq(acc, k + 1, Len(acc))

\* e placed in front of every element of the descending acc whose key is <= e's
insert_before_equal(acc, e) ==
  LET k == Cardinality({j \in 1..Len(acc) : acc[j][1] > e[1]})
  IN SubSeq(acc, 1, k) \o << e >> \o SubSeq(acc, k + 1, Len(acc))

RECURSIVE stable_from(_, _, _)
stable_from(s, k, acc) ==
  IF k > Len(s) THEN acc ELSE stable_from(s, k + 1, insert_after_equal(acc, s[k]))

RECURSIVE reversed_from(_, _, _)
reversed_from(s, k, acc) ==
  IF k > Len(s) THEN acc ELSE reversed_from(s, k + 1, insert_before_equal(acc, s[k]))

\* Faulty variant of stable_sort: equal scores come out in reverse order
stable_sort_ties_reversed(s) == reversed_from(s, 1, Empty)

\* std::stable_sort by get<0> descending: equal keys keep their input order
stable_sort(s) == stable_from(s, 1, Empty)

(* std::sort by get<0> descending.  The order of equal keys is not fixed   *)
(* by the language; it is fixed by the library the program was built with  *)
(* and is a function of the input sequence.  The builds modelled:          *)
(*   "stable"     equal keys keep their input order;                       *)
(*   "introsort"  a pure insertion sort (stable) up to S_threshold         *)
(*                elements, and partitioning, which reorders equal keys,   *)
(*                above it (libstdc++: 16 elements, one more than          *)
(*                KEEP_TOP_K).                                             *)
SortImpls == {"stable", "introsort"}

S_threshold == KEEP_TOP_K + 1

\* Faulty variant of std_sort: the tuples are left in the order of the flattening
std_sort_unsorted(s, impl) == s

std_sort(s, impl) ==
  IF impl = "stable" \/ Len(s) <= S_threshold
    THEN stable_sort(s)
    ELSE reversed_from(s, 1, Empty)

\* vector::resize(n) of a vector at least n long
resize(s, n) == SubSeq(s, 1, n)

----------------------------------------------------------------------------
(* get_one_class_max_score_index, get_multi_class_max_score_index          *)

\* Faulty variant of passes_threshold: a score equal to the threshold passes
passes_threshold_inclusive(score, thresh) == score >= thresh

\* score > NMS_CONF_THRESH
passes_threshold(score, thresh) == score > thresh

get_one_class_max_score_index(conf, lbl, thresh, top_k) ==
  LET all == [n \in 1..NUM_PRIORS |->
                << conf[(n - 1) * NUM_CLASSES + lbl], n - 1 >>]
      kept == SelectSeq(all, LAMBDA e : passes_threshold(e[1], thresh))
      sorted == stable_sort(kept)
  IN IF top_k < Len(sorted) THEN resize(sorted, top_k) ELSE sorted

get_multi_class_max_score_index(conf, start_label, num_classes, vec, thresh, top_k) ==
  [c \in Classes |->
     IF c >= start_label /\ c < start_label + num_classes
       THEN get_one_class_max_score_index(conf, c, thresh, top_k)
       ELSE vec[c]]

----------------------------------------------------------------------------
(* applyNMS of vitis/ai/nnpp/apply_nms.hpp (library code, not in this       *)
(* repository): greedy suppression over centre/size boxes.                 *)

\* Twice the overlap of the intervals of centre x1, x2 and length w1, w2
overlap2(x1, w1, x2, w2) ==
  Min(2 * x1 + w1, 2 * x2 + w2) - Max(2 * x1 - w1, 2 * x2 - w2)

\* IoU(a, b) > num/den, for centre/size boxes; a degenerate union gives no
\* suppression
iou_above(a, b, num, den) ==
  LET w2 == overlap2(a[1], a[3], b[1], b[3])
      h2 == overlap2(a[2], a[4], b[2], b[4])
      inter4 == w2 * h2
      union4 == 4 * (a[3] * a[4] + b[3] * b[4]) - inter4
  IN /\ w2 >= 0
     /\ h2 >= 0
     /\ union4 > 0
     /\ den * inter4 > num * union4

RECURSIVE nms_from(_, _, _, _, _, _)
nms_from(order, k, bxs, scs, conf, res) ==
  IF k > Len(order) THEN res
  ELSE LET c == order[k][2]
           dropped == \/ scs[c] < conf
                      \/ \E r \in 1..Len(res) :
                           iou_above(bxs[c], bxs[res[r]],
                                     NMS_THRESH_NUM, NMS_THRESH_DEN)
       IN nms_from(order, k + 1, bxs, scs, conf,
                   IF dropped THEN res ELSE Append(res, c))

\* The positions (1-based) of the boxes kept, in the order they are accepted
applyNMS(bxs, scs, conf) ==
  nms_from(stable_sort([n \in 1..Len(bxs) |-> << scs[n], n >>]),
           1, bxs, scs, conf, Empty)

----------------------------------------------------------------------------
(* apply_one_class_nms                                                     *)

\* std::map::emplace: inserts unless the key is present
map_emplace(m, key, val) ==
  IF key \in DOMAIN m THEN m
  ELSE [k \in DOMAIN m \cup {key} |-> IF k = key THEN val ELSE m[k]]

\* Faulty variant of needs_decode: every candidate is decoded again
needs_decode_always(cache, idx) == TRUE

\* decoded_bboxes.find(idx) == decoded_bboxes.end()
needs_decode(cache, idx) == idx \notin DOMAIN cache

\* std::map::operator[] read: a missing key gives an empty vector
map_at(m, key) == IF key \in DOMAIN m THEN m[key] ELSE Empty

\* Faulty variant of nms_box: the raw prior box is handed to applyNMS
nms_box_prior(cache, idx) ==
  << prior_data[idx + 1].x, prior_data[idx + 1].y,
     prior_data[idx + 1].w, prior_data[idx + 1].h >>

\* boxes.push_back(decoded_bboxes[idx])
nms_box(cache, idx) == map_at(cache, idx)

\* indices->push_back(resultmap[r]) for every r of results
survivors(results, rmap) == [r \in 1..Len(results) |-> rmap[results[r]]]

----------------------------------------------------------------------------
(* detect                                                                  *)

\* Faulty variant of cleared: the map keeps its entries
cleared_nothing(m) == m

\* decoded_bboxes.clear(), masks.clear()
cleared(m) == EmptyMap

RECURSIVE flatten_from(_, _, _)
\* score_index_tuples of the labels lbl.., each (score, label, idx)
flatten_from(ind, conf, lbl) ==
  IF lbl >= NUM_CLASSES THEN Empty
  ELSE [j \in 1..Len(ind[lbl]) |->
          << conf[ind[lbl][j] * NUM_CLASSES + lbl], lbl, ind[lbl][j] >>]
       \o flatten_from(ind, conf, lbl + 1)

\* Faulty variant of keep_top: the resize is left out
keep_top_unbounded(tuples) == tuples

\* score_index_tuples.resize(KEEP_TOP_K)
keep_top(tuples) == resize(tuples, KEEP_TOP_K)

\* indices[get<1>(item)].push_back(get<2>(item)) for every item in order
regroup(tuples) ==
  [c \in Classes |->
     LET mine == SelectSeq(tuples, LAMBDA t : t[2] = c)
     IN [j \in 1..Len(mine) |-> mine[j][3]]]

\* The block of detect() under KEEP_TOP_K > 0 && num_det > KEEP_TOP_K
global_cap(ind, n_det, conf, impl) ==
  IF KEEP_TOP_K > 0 /\ n_det > KEEP_TOP_K
    THEN regroup(keep_top(std_sort(flatten_from(ind, conf, 0), impl)))
    ELSE ind

\* Faulty variant of make_box_res: the label is written zero-based
make_box_res_zero_based(lbl, idx, conf, cache) ==
  LET bbox == map_at(cache, idx)
  IN [label |-> lbl - 1,
      score |-> conf[idx * NUM_CLASSES + lbl],
      x |-> bbox[1] - bbox[3] \div 2,
      y |-> bbox[2] - bbox[4] \div 2,
      w |-> bbox[3],
      h |-> bbox[4]]

\* box_res of (label, idx)
make_box_res(lbl, idx, conf, cache) ==
  LET bbox == map_at(cache, idx)
  IN [label |-> lbl,
      score |-> conf[idx * NUM_CLASSES + lbl],
      x |-> bbox[1] - bbox[3] \div 2,
      y |-> bbox[2] - bbox[4] \div 2,
      w |-> bbox[3],
      h |-> bbox[4]]

RECURSIVE emit_boxes_from(_, _, _, _)
\* What the final loops append to box_result for the labels lbl..
emit_boxes_from(ind, conf, cache, lbl) ==
  IF lbl >= NUM_CLASSES THEN Empty
  ELSE [j \in 1..Len(ind[lbl]) |-> make_box_res(lbl, ind[lbl][j], conf, cache)]
       \o emit_boxes_from(ind, conf, cache, lbl + 1)

RECURSIVE emit_masks_of_first(_, _, _)
\* Faulty variant of emit_masks_from: every detection of a class gets the mask
\* of the first index of the class
emit_masks_of_first(ind, mks, lbl) ==
  IF lbl >= NUM_CLASSES THEN Empty
  ELSE [j \in 1..Len(ind[lbl]) |-> map_at(mks, ind[lbl][1])]
       \o emit_masks_of_first(ind, mks, lbl + 1)

RECURSIVE emit_masks_from(_, _, _)
\* What the final loops append to mask_result for the labels lbl..
emit_masks_from(ind, mks, lbl) ==
  IF lbl >= NUM_CLASSES THEN Empty
  ELSE [j \in 1..Len(ind[lbl]) |-> map_at(mks, ind[lbl][j])]
       \o emit_masks_from(ind, mks, lbl + 1)

RECURSIVE sum_len_from(_, _)
\* The total of indices[c].size() over the labels lbl..
sum_len_from(ind, lbl) ==
  IF lbl >= NUM_CLASSES THEN 0 ELSE Len(ind[lbl]) + sum_len_from(ind, lbl + 1)

\* detect() as a function of its tensors and parameters: the per-class
\* survivors after the global cap
detect_indices(conf, loc, thresh, top_k, impl) ==
  LET ranked == get_multi_class_max_score_index(conf, 1, NUM_CLASSES - 1,
                                                [c \in Classes |-> Empty],
                                                thresh, top_k)
      kept(c) ==
        LET cand == ranked[c]
            bxs == [k \in 1..Len(cand) |->
                      decode_bbox(loc_row(loc, cand[k][2]), cand[k][2])]
            scs == [k \in 1..Len(cand) |-> cand[k][1]]
            rmap == [k \in 1..Len(cand) |-> cand[k][2]]
        IN survivors(applyNMS(bxs, scs, thresh), rmap)
      ind == [c \in Classes |-> IF c >= 1 THEN kept(c) ELSE Empty]
  IN global_cap(ind, sum_len_from(ind, 1), conf, impl)

----------------------------------------------------------------------------
(* copy_data, postprocess                                                  *)

tensor_offset == << 0 >>

\* memcpy(&output[tensor_offset[idx]*channels], input, size), batch of one;
\* size counts elements here
copy_data(input, output, idx, size, channels) ==
  LET offset == tensor_offset[idx + 1] * channels
  IN [k \in DOMAIN output |->
        IF k >= offset /\ k < offset + size THEN input[k - offset] ELSE output[k]]

\* Faulty variant of vector_clear: the vector keeps its elements
vector_clear_nothing(v) == v

\* box_results.clear(), mask_results.clear()
vector_clear(v) == Empty

----------------------------------------------------------------------------
(* The tensors the inference engine hands to postprocess                   *)

Variants == 0..1

\* Location tensor: variant 0 has every offset zero; variant 1 moves prior 0
\* down by its own height and doubles prior 1
LocOf(v) ==
  [k \in 0..(NUM_PRIORS * 4 - 1) |->
     IF v = 0 THEN 0
     ELSE IF k = 1 THEN 10
     ELSE IF k \in {6, 7} THEN 1
     ELSE 0]

\* Mask coefficient tensor: every entry differs between variants and places
MaskOf(v) == [k \in 0..(NUM_PRIORS * PROTO_C - 1) |-> 10 * (v + 1) + k]

AllScores == {5, 6, 7, 8, 9}

\* The confidences drawn for a class: below, at and above NMS_CONF_THRESH
ScoresOf(c) ==
  IF c = 0 THEN {5, 9}
  ELSE IF c % 2 = 1 THEN {5, 7, 8, 9}
  ELSE {5, 6, 9}

\* conf with every background confidence set to bg
with_background(conf, bg) ==
  [k \in DOMAIN conf |-> IF k % NUM_CLASSES = 0 THEN bg ELSE conf[k]]

\* Confidence tensors of the given number of rows, one background value per
\* tensor
Confs(rows) ==
  LET cols == {f \in [1..(NUM_CLASSES - 1) -> [0..(rows - 1) -> AllScores]] :
                 \A c \in 1..(NUM_CLASSES - 1) : \A q \in 0..(rows - 1) :
                   f[c][q] \in ScoresOf(c)}
  IN {[k \in 0..(rows * NUM_CLASSES - 1) |->
         IF k % NUM_CLASSES = 0 THEN bg ELSE f[k % NUM_CLASSES][k \div NUM_CLASSES]] :
        bg \in ScoresOf(0), f \in cols}

\* A confidence tensor is well formed with NUM_PRIORS rows; a short one has
\* one row less.  Short tensors are drawn for the first frame.
FirstFrames ==
  [v : Variants, rows : {NUM_PRIORS}, conf : Confs(NUM_PRIORS)]
    \cup [v : Variants, rows : {NUM_PRIORS - 1}, conf : Confs(NUM_PRIORS - 1)]

\* A following frame is well formed and near the one in the buffers: the
\* same class confidences under any variant and background value, or one
\* class confidence changed
NextFrames(conf, loc) ==
  {[v |-> v, rows |-> NUM_PRIORS, conf |-> with_background(conf, bg)] :
     v \in Variants, bg \in ScoresOf(0)}
    \cup
  {[v |-> v, rows |-> NUM_PRIORS,
    conf |-> [with_background(conf, conf[0]) EXCEPT ![e[1]] = e[2]]] :
     v \in {u \in Variants : LocOf(u) = loc},
     e \in {d \in (DOMAIN conf) \X AllScores :
              d[1] % NUM_CLASSES # 0 /\ d[2] \in ScoresOf(d[1] % NUM_CLASSES)}}

NoRun == << >>

----------------------------------------------------------------------------
(* create_priors and copy_data with the constants of the source             *)
(* (yolact.hpp:48, 200, 238-242).  Coordinates are exact fractions          *)
(* << numerator, denominator >>.                                           *)

NUM_PRIORS_full == 19248
max_size_full == 550
fmap_dims_full == << 69, 35, 18, 9, 5 >>
scales_full == << 24, 48, 96, 192, 384 >>
tensor_offset_full == << 0, 14283, 17958, 18930, 19173 >>

\* Every row of aspect_ratios[5][3] is {1, 0.5, 2}: aspect_ratios above
num_ratios == Len(aspect_ratios)

\* Faulty variant of prior_center: row and column are exchanged
prior_center_swapped(ii, jj, F) ==
  [x |-> << 2 * jj + 1, 2 * F >>, y |-> << 2 * ii + 1, 2 * F >>]

\* prior_box.x = (i + 0.5f) * inv_fmap_dims, prior_box.y = (j + 0.5f) * inv_fmap_dims
prior_center(ii, jj, F) ==
  [x |-> << 2 * ii + 1, 2 * F >>, y |-> << 2 * jj + 1, 2 * F >>]

\* prior_box.w = scale * aspect_ratios[k][r] / max_size, k and r 0-based
prior_size(k, r) ==
  << scales_full[k + 1] * aspect_ratios[r + 1][1],
     aspect_ratios[r + 1][2] * max_size_full >>

\* Faulty variant of copy_offset: the channel count is left out
copy_offset_unscaled(idx, channels) == tensor_offset_full[idx + 1]

\* copy_data(): int offset = tensor_offset[idx] * channels
copy_offset(idx, channels) == tensor_offset_full[idx + 1] * channels

\* The floats of the output tensor of pyramid level idx: one row of
\* channels floats per box of the level
level_elements(idx, channels) ==
  num_ratios * fmap_dims_full[idx + 1] * fmap_dims_full[idx + 1] * channels

NoPrior == << >>

\* Outside create(): nothing is being built or copied
PriorsIdle ==
  /\ prior_k = 0
  /\ prior_j = 0
  /\ prior_i = 0
  /\ prior_r = 0
  /\ prior_ptr = 0
  /\ last_prior = NoPrior
  /\ level_first = Empty
  /\ copy_channels = 0
  /\ copied = {}
  /\ prior_pc = "off"

----------------------------------------------------------------------------
(* One detection followed from its location row to its overlay             *)

NoBox == << >>

NoField == << >>

\* cv::Mat of rows x cols floats: a function on the pixels << h, w >>
Pixels(size) == (0..(size[2] - 1)) \X (0..(size[1] - 1))

\* The image sizes drawn for img
ImgSizes == {<< 3, 2 >>, << 2, 3 >>, << 4, 4 >>}

\* m2 after cv::resize: sigmoid values in tenths, 1..9, changing from pixel
\* to pixel with a step of a tenths
FieldOf(a, size) ==
  [p \in Pixels(size) |-> ((a * (p[1] * size[1] + p[2]) + 2) % 9) + 1]

Fields(size) == {FieldOf(a, size) : a \in {1, 4, 7}}

\* std::min(std::max(v * side, 0.0f), side) converted to int; v in 1/UNIT
to_pixels(v, side) == Min(Max(v * side, 0), side * UNIT) \div UNIT

\* roi of draw_masks() for box on an image of the given size
roi_of(box, size) ==
  [x |-> to_pixels(box.x, size[1]),
   y |-> to_pixels(box.y, size[2]),
   width |-> to_pixels(box.w, size[1]),
   height |-> to_pixels(box.h, size[2])]

\* cv::Mat::operator()(roi) accepts roi: it lies within the matrix
roi_within(roi, size) ==
  /\ 0 <= roi.x /\ 0 <= roi.width /\ roi.x + roi.width <= size[1]
  /\ 0 <= roi.y /\ 0 <= roi.height /\ roi.y + roi.height <= size[2]

\* m2(roi).copyTo(crop)
crop_of(mat, roi) ==
  [p \in (0..(roi.height - 1)) \X (0..(roi.width - 1)) |->
     mat[<< p[1] + roi.y, p[2] + roi.x >>]]

\* cv::Mat::zeros(m2.size(), m2.type())
zeros(size) == [p \in Pixels(size) |-> 0]

\* Faulty variant of paste: the crop is copied to the top left corner
paste_at_origin(crop, roi, mat) ==
  [p \in DOMAIN mat |-> IF p \in DOMAIN crop THEN crop[p] ELSE mat[p]]

\* crop.copyTo(m2(roi))
paste(crop, roi, mat) ==
  [p \in DOMAIN mat |->
     IF /\ roi.y <= p[1] /\ p[1] < roi.y + roi.height
        /\ roi.x <= p[2] /\ p[2] < roi.x + roi.width
       THEN crop[<< p[1] - roi.y, p[2] - roi.x >>]
       ELSE mat[p]]

\* The pixels the blending loop changes: m2.at<float>(h,w) > 0.5f
blend_pixels(mat) == {p \in DOMAIN mat : mat[p] > 5}

\* Outside the rendering of a detection
RenderIdle ==
  /\ render_idx = 0
  /\ render_loc = << 0, 0, 0, 0 >>
  /\ render_box = NoBox
  /\ img_size = << 0, 0 >>
  /\ m2_resized = NoField
  /\ m2 = NoField
  /\ blended = {}
  /\ render_pc = "off"

\* Location rows: centre offsets that leave the box inside the image, push
\* part of it out and push all of it out, on either side; size offsets that
\* halve the prior up to making it larger than the image.  The half sizes
\* stay whole numbers of 1/UNIT.
CentreOffsets == {-40, -20, -10, 0, 10, 20, 40}
SizeOffsets(idx) == IF prior_data[idx + 1].w >= 8 THEN (-1)..3 ELSE 0..3

LocRows(idx) ==
  {<< dx, dy, kx, ky >> :
     dx \in CentreOffsets, dy \in {-40, 0, 20},
     kx \in SizeOffsets(idx), ky \in {0, 2}}

----------------------------------------------------------------------------
(* The state machine                                                       *)

NoCandidates == [c \in Classes |-> Empty]
NoCalls == [p \in Priors |-> 0]

MainInit ==
  /\ sortImpl \in SortImpls
  /\ nms_top_k \in TopKs
  \* malloc'ed buffers: loc_data and mask_data are overwritten whole before
  \* they are read; conf_data may be read where a short tensor left it
  /\ loc_data = [k \in 0..(NUM_PRIORS * 4 - 1) |-> 0]
  /\ conf_data \in {[k \in 0..(NUM_PRIORS * NUM_CLASSES - 1) |-> g] : g \in ScoresOf(0)}
  /\ mask_data = [k \in 0..(NUM_PRIORS * PROTO_C - 1) |-> 0]
  /\ decoded_bboxes = EmptyMap
  /\ masks = EmptyMap
  /\ box_results = Empty
  /\ mask_results = Empty
  /\ score_index_vec = NoCandidates
  /\ indices = NoCandidates
  /\ num_det = 0
  /\ boxes = Empty
  /\ scores = Empty
  /\ resultmap = Empty
  /\ label = 0
  /\ i = 0
  /\ pc = "idle"
  /\ decode_calls = NoCalls
  /\ first_decoded = EmptyMap
  /\ tensor_rows = NUM_PRIORS
  /\ prev_results = NoRun

\* The runs of postprocess() start when create() has returned
Init == MainInit /\ PriorsIdle /\ RenderIdle

\* postprocess() and detect() up to its NMS loop: the copies into the host
\* buffers, box_results.clear() and mask_results.clear(), then in detect()
\* decoded_bboxes.clear(), masks.clear() and the ranking of every class from
\* 1 on
Postprocess(frame) ==
  /\ pc \in {"idle", "done"}
  /\ UNCHANGED aux_vars
  /\ loc_data' = copy_data(LocOf(frame.v), loc_data, 0, NUM_PRIORS * 4, 4)
  /\ conf_data' = copy_data(frame.conf, conf_data, 0,
                            frame.rows * NUM_CLASSES, NUM_CLASSES)
  /\ mask_data' = copy_data(MaskOf(frame.v), mask_data, 0,
                            NUM_PRIORS * PROTO_C, PROTO_C)
  /\ box_results' = vector_clear(box_results)
  /\ mask_results' = vector_clear(mask_results)
  /\ decoded_bboxes' = cleared(decoded_bboxes)
  /\ masks' = cleared(masks)
  /\ num_det' = 0
  /\ indices' = NoCandidates
  /\ score_index_vec' =
       get_multi_class_max_score_index(conf_data', 1, NUM_CLASSES - 1,
                                       NoCandidates, NMS_CONF_THRESH, nms_top_k)
  /\ label' = 1
  /\ i' = 0
  /\ boxes' = Empty
  /\ scores' = Empty
  /\ resultmap' = Empty
  /\ pc' = "nms"
  /\ decode_calls' = NoCalls
  /\ first_decoded' = EmptyMap
  /\ tensor_rows' = frame.rows
  /\ prev_results' =
       IF /\ pc = "done"
          /\ loc_data' = loc_data
          /\ conf_data' = conf_data
          /\ mask_data' = mask_data
         THEN << box_results, mask_results >>
         ELSE NoRun
  /\ UNCHANGED << sortImpl, nms_top_k >>

\* One turn of the while loop of apply_one_class_nms() for class label
NmsGather ==
  /\ pc = "nms"
  /\ i < Len(score_index_vec[label])
  /\ UNCHANGED aux_vars
  /\ LET idx == score_index_vec[label][i + 1][2]
         decode == needs_decode(decoded_bboxes, idx) /\ idx < NUM_PRIORS
         bbox == decode_bbox(loc_row(loc_data, idx), idx)
     IN /\ decoded_bboxes' =
             IF decode THEN map_emplace(decoded_bboxes, idx, bbox)
                       ELSE decoded_bboxes
        /\ masks' =
             IF decode THEN map_emplace(masks, idx, mask_row(mask_data, idx))
                       ELSE masks
        /\ decode_calls' =
             IF decode THEN [decode_calls EXCEPT ![idx] = @ + 1]
                       ELSE decode_calls
        /\ first_decoded' =
             IF decode THEN map_emplace(first_decoded, idx, bbox)
                       ELSE first_decoded
        /\ boxes' = Append(boxes, nms_box(decoded_bboxes', idx))
        /\ scores' = Append(scores, score_index_vec[label][i + 1][1])
        /\ resultmap' = Append(resultmap, idx)
  /\ i' = i + 1
  /\ UNCHANGED << sortImpl, nms_top_k, loc_data, conf_data, mask_data, box_results,
                  mask_results, score_index_vec, indices, num_det, label, pc,
                  tensor_rows, prev_results >>

\* The rest of apply_one_class_nms() for class label, and the loop step of
\* detect(): applyNMS, the survivors into indices[label], num_det
NmsApply ==
  /\ pc = "nms"
  /\ i = Len(score_index_vec[label])
  /\ UNCHANGED aux_vars
  /\ LET results == applyNMS(boxes, scores, NMS_CONF_THRESH)
         kept == survivors(results, resultmap)
     IN /\ indices' = [indices EXCEPT ![label] = kept]
        /\ num_det' = num_det + Len(kept)
  /\ label' = label + 1
  /\ i' = 0
  /\ boxes' = Empty
  /\ scores' = Empty
  /\ resultmap' = Empty
  /\ pc' = IF label + 1 < NUM_CLASSES THEN "nms" ELSE "cap"
  /\ UNCHANGED << sortImpl, nms_top_k, loc_data, conf_data, mask_data, decoded_bboxes,
                  masks, box_results, mask_results, score_index_vec,
                  decode_calls, first_decoded, tensor_rows, prev_results >>

\* The global top-K block of detect()
GlobalCap ==
  /\ pc = "cap"
  /\ UNCHANGED aux_vars
  /\ indices' = global_cap(indices, num_det, conf_data, sortImpl)
  /\ pc' = "emit"
  /\ UNCHANGED << sortImpl, nms_top_k, loc_data, conf_data, mask_data, decoded_bboxes,
                  masks, box_results, mask_results, score_index_vec, num_det,
                  boxes, scores, resultmap, label, i, decode_calls,
                  first_decoded, tensor_rows, prev_results >>

\* The final loops of detect(): one box_t and one mask per surviving index
Emit ==
  /\ pc = "emit"
  /\ UNCHANGED aux_vars
  /\ box_results' =
       box_results \o emit_boxes_from(indices, conf_data, decoded_bboxes, 1)
  /\ mask_results' = mask_results \o emit_masks_from(indices, masks, 1)
  /\ pc' = "done"
  /\ UNCHANGED << sortImpl, nms_top_k, loc_data, conf_data, mask_data, decoded_bboxes,
                  masks, score_index_vec, indices, num_det, boxes, scores,
                  resultmap, label, i, decode_calls, first_decoded,
                  tensor_rows, prev_results >>

\* run(): the first frame is any frame, a later one is near the one before
Run ==
  \E frame \in (IF pc = "idle" THEN FirstFrames
                ELSE NextFrames(conf_data, loc_data)) :
    Postprocess(frame)

Next ==
  \/ Run
  \/ NmsGather
  \/ NmsApply
  \/ GlobalCap
  \/ Emit

Spec == Init /\ [][Next]_vars

----------------------------------------------------------------------------
(* create() and the copies of postprocess() at the scale of the source      *)

\* One host buffer is followed: loc_data (4 floats per row), conf_data or
\* mask_data
PriorsInit ==
  /\ MainInit
  /\ sortImpl = "stable"
  /\ nms_top_k = NUM_PRIORS
  /\ conf_data[0] = NMS_CONF_THRESH - 1
  /\ prior_k = 0
  /\ prior_j = 0
  /\ prior_i = 0
  /\ prior_r = 0
  /\ prior_ptr = 0
  /\ last_prior = NoPrior
  /\ level_first = Empty
  /\ copy_channels \in {4, NUM_CLASSES, PROTO_C}
  /\ copied = {}
  /\ prior_pc = "create"
  /\ RenderIdle

\* One turn of the innermost loop of create_priors(): *prior_data++ =
\* prior_box, then the loop counters advance; the last turn returns
CreatePriorsStep ==
  /\ prior_pc = "create"
  /\ prior_k < Len(fmap_dims_full)
  /\ LET F == fmap_dims_full[prior_k + 1]
         c == prior_center(prior_i, prior_j, F)
         w == prior_size(prior_k, prior_r)
         end_r == prior_r + 1 = num_ratios
         end_i == end_r /\ prior_i + 1 = F
         end_j == end_i /\ prior_j + 1 = F
     IN /\ last_prior' = [x |-> c.x, y |-> c.y, w |-> w, h |-> w]
        /\ prior_ptr' = prior_ptr + 1
        /\ level_first' =
             IF prior_j = 0 /\ prior_i = 0 /\ prior_r = 0
               THEN Append(level_first, prior_ptr)
               ELSE level_first
        /\ prior_r' = IF end_r THEN 0 ELSE prior_r + 1
        /\ prior_i' = IF end_i THEN 0 ELSE IF end_r THEN prior_i + 1 ELSE prior_i
        /\ prior_j' = IF end_j THEN 0 ELSE IF end_i THEN prior_j + 1 ELSE prior_j
        /\ prior_k' = IF end_j THEN prior_k + 1 ELSE prior_k
        /\ prior_pc' =
             IF end_j /\ prior_k + 1 = Len(fmap_dims_full) THEN "copy" ELSE "create"
  /\ UNCHANGED << copy_channels, copied, main_vars, render_vars >>

\* postprocess(): copy_data() for the output tensor of level idx, batch of
\* one; the tensors come in the order of the runner
CopyData(idx) ==
  /\ prior_pc = "copy"
  /\ \A c \in copied : c[1] # idx
  /\ copied' = copied \cup {<< idx, copy_offset(idx, copy_channels),
                               level_elements(idx, copy_channels) >>}
  /\ UNCHANGED << prior_k, prior_j, prior_i, prior_r, prior_ptr, last_prior,
                  level_first, copy_channels, prior_pc, main_vars, render_vars >>

CopyLevels == \E idx \in 0..(Len(tensor_offset_full) - 1) : CopyData(idx)

NextPriors ==
  \/ CreatePriorsStep
  \/ CopyLevels

SpecPriors == PriorsInit /\ [][NextPriors]_vars

----------------------------------------------------------------------------
(* decode_bbox(), the box_t of detect() and draw_masks() on one detection   *)

RenderInit ==
  /\ MainInit
  /\ sortImpl = "stable"
  /\ nms_top_k = NUM_PRIORS
  /\ conf_data[0] = NMS_CONF_THRESH - 1
  /\ PriorsIdle
  /\ render_idx \in Priors
  /\ render_loc \in LocRows(render_idx)
  /\ render_box = NoBox
  /\ img_size = << 0, 0 >>
  /\ m2_resized = NoField
  /\ m2 = NoField
  /\ blended = {}
  /\ render_pc = "decode"

\* detect() for the one candidate (label, render_idx) whose confidence is
\* score: decode_bbox() into the cache, then box_res of the final loop
DetectOne(lbl, score) ==
  /\ render_pc = "decode"
  /\ LET cache == map_emplace(EmptyMap, render_idx,
                              decode_bbox(render_loc, render_idx))
         conf == [k \in 0..(NUM_PRIORS * NUM_CLASSES - 1) |-> score]
     IN render_box' = make_box_res(lbl, render_idx, conf, cache)
  /\ render_pc' = "draw"
  /\ UNCHANGED << render_idx, render_loc, img_size, m2_resized, m2, blended,
                  main_vars, prior_vars >>

Detections ==
  \E lbl \in 1..(NUM_CLASSES - 1) :
    \E score \in {s \in AllScores : passes_threshold(s, NMS_CONF_THRESH)} :
      DetectOne(lbl, score)

\* draw_masks() on the one detection, for an image of the given size, the
\* field cv::resize makes of m1 at that size, and score_thresh.  A roi
\* outside the matrix makes cv::Mat::operator() throw.
DrawMasks(size, resized, score_thresh) ==
  /\ render_pc = "draw"
  /\ img_size' = size
  /\ IF render_box.score < score_thresh
       THEN /\ m2_resized' = NoField
            /\ m2' = NoField
            /\ blended' = {}
            /\ render_pc' = "done"
       ELSE LET roi == roi_of(render_box, size)
            IN /\ m2_resized' = resized
               /\ IF roi_within(roi, size)
                    THEN /\ m2' = paste(crop_of(resized, roi), roi, zeros(size))
                         /\ blended' = blend_pixels(m2')
                         /\ render_pc' = "done"
                    ELSE /\ m2' = NoField
                         /\ blended' = {}
                         /\ render_pc' = "error"
  /\ UNCHANGED << render_idx, render_loc, render_box, main_vars, prior_vars >>

Overlays ==
  \E size \in ImgSizes : \E resized \in Fields(size) :
    \E score_thresh \in {NMS_CONF_THRESH, NMS_CONF_THRESH + 2} :
      DrawMasks(size, resized, score_thresh)

NextRender ==
  \/ Detections
  \/ Overlays

SpecRender == RenderInit /\ [][NextRender]_vars

----------------------------------------------------------------------------
(* Properties                                                              *)

Range(seq) == {seq[k] : k \in 1..Len(seq)}

\* The (label, prior index) pairs held in per-class index lists
DetSet(ind) == {d \in Classes \X Priors : d[2] \in Range(ind[d[1]])}

\* The box decode_bbox computes for prior p from the host buffer
DecodedNow(p) == decode_bbox(loc_row(loc_data, p), p)

\* Classes whose NMS has finished and whose survivors are still in indices
\* as apply_one_class_nms returned them
NmsDone(c) == c >= 1 /\ ((pc = "nms" /\ c < label) \/ pc = "cap")

\* The prior indices ranked for class c
Candidates(c) == {score_index_vec[c][k][2] : k \in 1..Len(score_index_vec[c])}

\* The confidence of prior p for class c in the host buffer
Conf(p, c) == conf_data[p * NUM_CLASSES + c]

(* C1: the number of detections detect() appends to box_result never       *)
(* exceeds KEEP_TOP_K and never exceeds num_det, the sum over the classes   *)
(* 1.. of the per-class NMS survivor counts.                               *)
C1_CountWithinCaps ==
  /\ pc = "cap" => num_det = sum_len_from(indices, 1)
  /\ pc = "done" => /\ Len(box_results) <= KEEP_TOP_K
                    /\ Len(box_results) <= num_det

\* C1 witness: a finished detect() whose survivors exceeded the cap
C1_Witness ==
  pc = "done" /\ num_det > KEEP_TOP_K /\ Len(box_results) = KEEP_TOP_K

(* C2: no detection carries label 0; class 0 is never ranked, never handed  *)
(* to NMS and never emitted, on the capped and the uncapped path, whatever  *)
(* the class 0 confidences are.                                            *)
C2_NoBackground ==
  /\ score_index_vec[0] = Empty
  /\ indices[0] = Empty
  /\ pc = "nms" => label >= 1
  /\ \A k \in 1..Len(box_results) : box_results[k].label # 0

\* C2 witness: detections emitted on the capped path while every background
\* confidence is above the threshold
C2_Witness ==
  /\ pc = "done"
  /\ num_det > KEEP_TOP_K
  /\ Len(box_results) > 0
  /\ \A p \in Priors : Conf(p, 0) > NMS_CONF_THRESH

(* C3 as stated: of two candidates of one class whose decoded boxes have    *)
(* IoU above NMS_THRESH, the higher-scoring one is returned and the other   *)
(* is not.                                                                 *)
C3_OnlyHigherSurvives ==
  \A c \in Classes : NmsDone(c) =>
    \A a, b \in Candidates(c) :
      (/\ Conf(a, c) > Conf(b, c)
       /\ iou_above(DecodedNow(a), DecodedNow(b), NMS_THRESH_NUM, NMS_THRESH_DEN))
      => (a \in Range(indices[c]) /\ b \notin Range(indices[c]))

(* C3 amended: two candidates of one class whose decoded boxes have IoU     *)
(* above NMS_THRESH are never both returned: the lower-scoring one is       *)
(* absent whenever the higher-scoring one is returned.                     *)
C3_NeverBothSurvive ==
  \A c \in Classes : NmsDone(c) =>
    \A a, b \in Candidates(c) :
      (/\ a # b
       /\ iou_above(DecodedNow(a), DecodedNow(b), NMS_THRESH_NUM, NMS_THRESH_DEN))
      => ~(a \in Range(indices[c]) /\ b \in Range(indices[c]))

\* C3 witness: NMS of a class has run on two overlapping candidates whose
\* decoded boxes differ from their priors; the higher one is returned, the
\* lower one is not, and the raw priors would not have overlapped enough
C3_Witness ==
  \E c \in Classes : NmsDone(c) /\
    \E a, b \in Candidates(c) :
      /\ Conf(a, c) > Conf(b, c)
      /\ iou_above(DecodedNow(a), DecodedNow(b), NMS_THRESH_NUM, NMS_THRESH_DEN)
      /\ ~iou_above(nms_box_prior(decoded_bboxes, a), nms_box_prior(decoded_bboxes, b),
                    NMS_THRESH_NUM, NMS_THRESH_DEN)
      /\ a \in Range(indices[c])
      /\ b \notin Range(indices[c])

(* C4: within one detect() call decode_bbox is invoked at most once for a   *)
(* prior index, also when several classes select it; every later class      *)
(* reads the box the first decode stored in decoded_bboxes, unchanged.      *)
C4_DecodeOnce ==
  pc \in {"nms", "cap", "emit", "done"} =>
    /\ \A p \in Priors : decode_calls[p] <= 1
    /\ DOMAIN decoded_bboxes = DOMAIN first_decoded
    /\ \A p \in DOMAIN decoded_bboxes : decoded_bboxes[p] = first_decoded[p]
    /\ \A k \in 1..Len(boxes) : boxes[k] = first_decoded[resultmap[k]]

\* C4 witness: a later class has just read the box of a prior index that an
\* earlier class had selected and decoded
C4_Witness ==
  /\ pc = "nms"
  /\ label = 2
  /\ Len(boxes) >= 1
  /\ resultmap[Len(resultmap)] \in Candidates(1)
  /\ decode_calls[resultmap[Len(resultmap)]] = 1

(* C5: over any sequence of run()/postprocess() calls the per-image state   *)
(* (decoded_bboxes, masks, box_results, mask_results) is emptied before an  *)
(* image is decoded: while detect() works on an image the caches hold       *)
(* exactly the priors decoded in this call, with the boxes and masks of     *)
(* this image's tensors, the result vectors stay empty until the final      *)
(* loops, and the detections reported are those of this call alone.         *)
C5_NoCarryOver ==
  pc \in {"nms", "cap", "emit", "done"} =>
    /\ DOMAIN decoded_bboxes = {p \in Priors : decode_calls[p] > 0}
    /\ DOMAIN masks = DOMAIN decoded_bboxes
    /\ \A p \in DOMAIN decoded_bboxes :
         /\ decoded_bboxes[p] = DecodedNow(p)
         /\ masks[p] = mask_row(mask_data, p)
    /\ pc # "done" => box_results = Empty /\ mask_results = Empty
    /\ pc = "done" =>
         /\ box_results =
              emit_boxes_from(indices, conf_data,
                              [p \in Priors |-> DecodedNow(p)], 1)
         /\ mask_results =
              emit_masks_from(indices, [p \in Priors |-> mask_row(mask_data, p)], 1)

\* C5 witness: a run that follows a run which left detections and cache
\* entries behind has finished with detections of its own
C5_Witness ==
  /\ pc = "done"
  /\ prev_results # NoRun
  /\ Len(prev_results[1]) > 0
  /\ Len(box_results) > 0

(* C6: for fixed location, confidence and mask tensors two executions of    *)
(* detect() give the same ordered list of detections and masks, also when   *)
(* candidates have equal scores at the per-class cap or at the global       *)
(* top-K boundary.                                                         *)
C6_Repeatable ==
  (pc = "done" /\ prev_results # NoRun) =>
    prev_results = << box_results, mask_results >>

\* C6 witness: a frame has been processed twice by a build whose std::sort
\* reorders equal keys; the per-class cap cut a class whose candidates all
\* score alike, and the global cap cut survivors that all score alike
C6_Witness ==
  /\ pc = "done"
  /\ prev_results # NoRun
  /\ sortImpl = "introsort"
  /\ num_det > S_threshold
  /\ \E c \in Classes :
       /\ Len(score_index_vec[c]) = nms_top_k
       /\ \A p \in Priors : Conf(p, c) = 9
  /\ \A k \in 1..Len(box_results) : box_results[k].score = 9
  /\ \A c \in 1..(NUM_CLASSES - 1) : \A p \in Priors : Conf(p, c) \in {5, 9}

(* C7: for fixed tensors, NMS threshold, per-class cap and global cap, the  *)
(* set of (label, prior index) detections of detect() with a higher         *)
(* confidence threshold is a subset of the set with the lower threshold:    *)
(* raising the threshold never adds a detection.                           *)
C7_RaisingNeverAdds ==
  pc = "done" =>
    \A higher \in {s \in AllScores : s > NMS_CONF_THRESH} :
      DetSet(detect_indices(conf_data, loc_data, higher, nms_top_k, sortImpl))
        \subseteq DetSet(indices)

\* (p, c) is the one pair whose confidence is above the threshold, and every
\* other confidence of the host buffer, class 0 included, is below it
SingleHot(p, c) ==
  /\ c >= 1
  /\ Conf(p, c) > NMS_CONF_THRESH
  /\ \A q \in Priors : \A d \in Classes :
       << q, d >> # << p, c >> => Conf(q, d) < NMS_CONF_THRESH

(* C8: if exactly one (prior index p, class c >= 1) pair has confidence     *)
(* above the threshold and every other confidence is below it, detect()     *)
(* outputs exactly one detection, with label c, that confidence as score,   *)
(* the box decoded from prior p and the mask coefficients of prior p.       *)
C8_SingleDetection ==
  pc = "done" =>
    \A p \in Priors : \A c \in Classes :
      SingleHot(p, c) =>
        /\ Len(box_results) = 1
        /\ box_results[1].label = c
        /\ box_results[1].score = Conf(p, c)
        /\ box_results[1] =
             make_box_res(c, p, conf_data, [q \in Priors |-> DecodedNow(q)])
        /\ mask_results =
             << [k \in 1..PROTO_C |-> mask_data[p * PROTO_C + (k - 1)]] >>

\* C8 witness: detect() has finished on a frame with a single confidence
\* above the threshold, at a prior whose location row is not all zero
C8_Witness ==
  /\ pc = "done"
  /\ \E p \in Priors : \E c \in Classes :
       /\ SingleHot(p, c)
       /\ p > 0
       /\ \E k \in 1..4 : loc_row(loc_data, p)[k] # 0
       /\ Len(box_results) = 1

(* C9: when an output tensor's dimensions are inconsistent with the         *)
(* configured prior count, class count or mask coefficient count,           *)
(* postprocessing of that image is aborted: nothing is decoded from it and  *)
(* no detection is emitted for it.                                         *)
C9_MalformedAborts ==
  tensor_rows # NUM_PRIORS =>
    /\ decoded_bboxes = EmptyMap
    /\ masks = EmptyMap
    /\ box_results = Empty
    /\ mask_results = Empty

\* No prior's confidence for class c exceeds the threshold
Quiet(c) == \A p \in Priors : ~(Conf(p, c) > NMS_CONF_THRESH)

(* C10: a class for which no prior's confidence exceeds the threshold       *)
(* contributes zero detections; when this holds for every class detect()    *)
(* runs to its end with an empty box_result and mask_result, every step of  *)
(* it is able to proceed, and no cache entry is created.                   *)
C10_NothingAboveThreshold ==
  pc \in {"nms", "cap", "emit", "done"} =>
    /\ \A c \in 1..(NUM_CLASSES - 1) :
         Quiet(c) =>
           /\ score_index_vec[c] = Empty
           /\ indices[c] = Empty
           /\ \A k \in 1..Len(box_results) : box_results[k].label # c
    /\ (\A c \in 1..(NUM_CLASSES - 1) : Quiet(c)) =>
         /\ decoded_bboxes = EmptyMap
         /\ masks = EmptyMap
         /\ num_det = 0
         /\ box_results = Empty
         /\ mask_results = Empty
         /\ pc # "done" => ENABLED (NmsApply \/ GlobalCap \/ Emit)

\* C10 witness: detect() has finished with nothing to report on a frame
\* where a confidence equals the threshold and the background class is
\* above it
C10_Witness ==
  /\ pc = "done"
  /\ \A c \in 1..(NUM_CLASSES - 1) : Quiet(c)
  /\ \E p \in Priors : \E c \in 1..(NUM_CLASSES - 1) : Conf(p, c) = NMS_CONF_THRESH
  /\ \A p \in Priors : Conf(p, 0) > NMS_CONF_THRESH
  /\ box_results = Empty
  /\ mask_results = Empty

\* Equality of two fractions << numerator, denominator >>
FracEq(a, b) == a[1] * b[2] = b[1] * a[2]

\* Boxes of the pyramid levels before level k: 3 * (F_0^2 + ... + F_(k-1)^2)
RECURSIVE BoxesBefore(_)
BoxesBefore(k) ==
  IF k = 0 THEN 0
  ELSE BoxesBefore(k - 1) + 3 * fmap_dims_full[k] * fmap_dims_full[k]

\* The pyramid level whose cells hold index n of the level-major order
LevelAt(n) ==
  CHOOSE k \in 0..(Len(fmap_dims_full) - 1) :
    BoxesBefore(k) <= n /\ n < BoxesBefore(k + 1)

(* C11: create_priors writes exactly NUM_PRIORS = 19248 =                   *)
(* 3*(69^2+35^2+18^2+9^2+5^2) boxes, one per (level, row, column, aspect    *)
(* ratio) in that nesting order, each with w = h = scale*ratio/max_size and *)
(* centre ((col+0.5)/F, (row+0.5)/F), and never writes at an index >=       *)
(* NUM_PRIORS.                                                             *)
C11_PriorsInOrder ==
  /\ NUM_PRIORS_full = 3 * (69 * 69 + 35 * 35 + 18 * 18 + 9 * 9 + 5 * 5)
  /\ prior_ptr <= NUM_PRIORS_full
  /\ prior_pc = "create" =>
       prior_ptr = BoxesBefore(prior_k)
                     + 3 * (prior_j * fmap_dims_full[prior_k + 1] + prior_i)
                     + prior_r
  /\ prior_pc = "copy" => prior_ptr = NUM_PRIORS_full
  /\ prior_ptr > 0 =>
       LET n == prior_ptr - 1
           lvl == LevelAt(n)
           F == fmap_dims_full[lvl + 1]
           m == n - BoxesBefore(lvl)
           ratio == aspect_ratios[(m % 3) + 1]
           col == (m \div 3) % F
           row == (m \div 3) \div F
       IN /\ FracEq(last_prior.x, << 2 * col + 1, 2 * F >>)
          /\ FracEq(last_prior.y, << 2 * row + 1, 2 * F >>)
          /\ FracEq(last_prior.w,
                    << scales_full[lvl + 1] * ratio[1], ratio[2] * max_size_full >>)
          /\ last_prior.h = last_prior.w

\* C11 witness: create_priors has returned after writing the box of the
\* last ratio of the last cell of the last level
C11_Witness ==
  /\ prior_pc = "copy"
  /\ prior_ptr = NUM_PRIORS_full
  /\ copied = {}
  /\ last_prior.x = << 9, 10 >>
  /\ last_prior.y = << 9, 10 >>
  /\ last_prior.w = << 768, 550 >>

(* C12: every box detect() emits is normalized: x, y, w and h lie in [0,1]   *)
(* and so do the far corners x+w and y+h, for any location offsets and any  *)
(* prior.                                                                  *)
C12_BoxNormalized ==
  render_box # NoBox =>
    /\ 0 <= render_box.x /\ render_box.x <= UNIT
    /\ 0 <= render_box.y /\ render_box.y <= UNIT
    /\ 0 <= render_box.w /\ render_box.w <= UNIT
    /\ 0 <= render_box.h /\ render_box.h <= UNIT
    /\ render_box.x + render_box.w <= UNIT
    /\ render_box.y + render_box.h <= UNIT

\* C12 witness: a box emitted for offsets that put it beyond the right edge
\* and across the top edge of the image
C12_Witness ==
  /\ render_box # NoBox
  /\ render_loc[1] = 40
  /\ render_loc[2] = -40
  /\ render_box.x = UNIT
  /\ render_box.w = 0
  /\ render_box.y = 0

\* The priors whose confidence for class c is strictly above the threshold
Qualifying(c) == {p \in Priors : Conf(p, c) > NMS_CONF_THRESH}

\* Prior a is ranked before prior b for class c: higher score, or the same
\* score and the lower index
RankedBefore(a, b, c) ==
  \/ Conf(a, c) > Conf(b, c)
  \/ Conf(a, c) = Conf(b, c) /\ a < b

(* C13: for each class c >= 1, get_one_class_max_score_index returns the    *)
(* first min(NMS_TOP_K, n) elements of the list of the n priors whose       *)
(* confidence for c is strictly greater than NMS_CONF_THRESH, ordered by    *)
(* score descending with equal scores in ascending prior index; a prior     *)
(* whose confidence equals the threshold is excluded.                      *)
C13_RankedCandidates ==
  pc \in {"nms", "cap", "emit", "done"} =>
    \A c \in 1..(NUM_CLASSES - 1) :
      LET v == score_index_vec[c]
          listed == {v[k][2] : k \in 1..Len(v)}
      IN /\ Len(v) = Min(nms_top_k, Cardinality(Qualifying(c)))
         /\ \A k \in 1..Len(v) :
              /\ v[k][2] \in Qualifying(c)
              /\ v[k][1] = Conf(v[k][2], c)
         /\ \A k, l \in 1..Len(v) : k < l => RankedBefore(v[k][2], v[l][2], c)
         /\ \A q \in Qualifying(c) \ listed :
              \A p \in listed : RankedBefore(p, q, c)
         /\ \A p \in Priors : Conf(p, c) = NMS_CONF_THRESH => p \notin listed

\* C13 witness: the cap has cut a class between two priors of equal score,
\* and another class has a prior whose confidence equals the threshold
C13_Witness ==
  /\ pc = "nms"
  /\ \E c \in 1..(NUM_CLASSES - 1) :
       /\ Cardinality(Qualifying(c)) > nms_top_k
       /\ \E p, q \in Qualifying(c) :
            /\ p < q
            /\ Conf(p, c) = Conf(q, c)
            /\ \E k \in 1..Len(score_index_vec[c]) : score_index_vec[c][k][2] = p
            /\ \A k \in 1..Len(score_index_vec[c]) : score_index_vec[c][k][2] # q
       /\ \E r \in Qualifying(c) : \E t \in Qualifying(c) : Conf(r, c) > Conf(t, c)
  /\ \E d \in 1..(NUM_CLASSES - 1) : \E p \in Priors : Conf(p, d) = NMS_CONF_THRESH

\* The score of the (label, prior index) pair d
PairScore(d) == Conf(d[2], d[1])

(* C14: in detect(), if the per-class NMS survivors number at most          *)
(* KEEP_TOP_K the survivor set is emitted unchanged; if they are more,      *)
(* exactly KEEP_TOP_K of them are emitted and every emitted (class, prior)  *)
(* pair scores at least as high as every dropped pair.                     *)
C14_GlobalCapKeepsBest ==
  [][/\ pc = "cap" =>
          LET before == DetSet(indices)
              after == DetSet(indices')
          IN IF Cardinality(before) <= KEEP_TOP_K
               THEN indices' = indices
               ELSE /\ after \subseteq before
                    /\ Cardinality(after) = KEEP_TOP_K
                    /\ \A e \in after : \A d \in before \ after :
                         PairScore(e) >= PairScore(d)
     /\ pc = "emit" =>
          /\ Len(box_results') = Cardinality(DetSet(indices))
          /\ \A d \in DetSet(indices) :
               \E k \in 1..Len(box_results') :
                 /\ box_results'[k].label = d[1]
                 /\ box_results'[k].score = PairScore(d)
                 /\ box_results'[k].w = DecodedNow(d[2])[3]
                 /\ box_results'[k].h = DecodedNow(d[2])[4]]_vars

\* C14 witness: detect() has finished after the cap dropped the survivors of
\* class 1, which come first in the flattening, and kept KEEP_TOP_K survivors
\* of class 2
C14_Witness ==
  /\ pc = "done"
  /\ num_det > KEEP_TOP_K
  /\ Qualifying(1) # {}
  /\ indices[1] = Empty
  /\ Len(indices[2]) = KEEP_TOP_K
  /\ Len(box_results) = KEEP_TOP_K

\* Pixel p = << h, w >> lies in the rectangle of the detection's box, its
\* x, y, w, h scaled to the pixels of the image and cut to whole pixels
InBoxRect(p) ==
  LET left == (render_box.x * img_size[1]) \div UNIT
      top == (render_box.y * img_size[2]) \div UNIT
      wide == (render_box.w * img_size[1]) \div UNIT
      high == (render_box.h * img_size[2]) \div UNIT
  IN /\ left <= p[2] /\ p[2] < left + wide
     /\ top <= p[1] /\ p[1] < top + high

(* C15: for every detection that draw_masks renders, after the crop the     *)
(* resized probability field is 0 at every pixel outside the detection's    *)
(* box rectangle (x, y, w, h scaled to image pixels) and equals the resized *)
(* sigmoid field at every pixel inside it; only pixels inside the rectangle *)
(* can exceed the 0.5 threshold and be blended.                            *)
C15_MaskCroppedToBox ==
  /\ render_pc # "error"
  /\ (render_pc = "done" /\ m2 # NoField) =>
       /\ DOMAIN m2 = Pixels(img_size)
       /\ \A p \in Pixels(img_size) :
            /\ ~InBoxRect(p) => m2[p] = 0
            /\ InBoxRect(p) => m2[p] = m2_resized[p]
       /\ \A p \in blended : InBoxRect(p)
       /\ blended = {p \in Pixels(img_size) : InBoxRect(p) /\ m2_resized[p] > 5}

\* C15 witness: a detection has been rendered whose rectangle starts inside
\* the image, off the pixel grid, and ends before the far edges; the resized
\* field was above 0.5 at a pixel outside it and at a pixel inside it
C15_Witness ==
  /\ render_pc = "done"
  /\ m2 # NoField
  /\ (render_box.x * img_size[1]) % UNIT # 0
  /\ (render_box.x * img_size[1]) \div UNIT > 0
  /\ \E p \in Pixels(img_size) : ~InBoxRect(p) /\ m2_resized[p] > 5 /\ p[2] > 0
  /\ \E p \in blended : m2[p] = m2_resized[p] /\ p[2] + 1 < img_size[1]
  /\ \E p \in Pixels(img_size) : ~InBoxRect(p) /\ p[2] + 1 = img_size[1]

RECURSIVE EmittedFrom(_)
\* The (label, prior index) pairs of indices in the order of the final loops
\* of detect(), from label lbl on
EmittedFrom(lbl) ==
  IF lbl >= NUM_CLASSES THEN Empty
  ELSE [j \in 1..Len(indices[lbl]) |-> << lbl, indices[lbl][j] >>]
       \o EmittedFrom(lbl + 1)

(* C16: after every detect() call box_result and mask_result have the same  *)
(* length, and mask_result[i] is exactly the PROTO_C mask coefficients      *)
(* mask_data[p*PROTO_C .. p*PROTO_C+PROTO_C-1] of the prior index p from    *)
(* which box_result[i] was decoded; the masks cache and the decoded_bboxes  *)
(* cache always hold the same key set and every emitted prior index is in   *)
(* both.                                                                   *)
C16_BoxesAndMasksAligned ==
  /\ DOMAIN masks = DOMAIN decoded_bboxes
  /\ Len(box_results) = Len(mask_results)
  /\ pc \in {"cap", "emit", "done"} =>
       \A d \in DetSet(indices) :
         d[2] \in DOMAIN masks /\ d[2] \in DOMAIN decoded_bboxes
  /\ pc = "done" =>
       LET emitted == EmittedFrom(1)
       IN /\ Len(box_results) = Len(emitted)
          /\ \A k \in 1..Len(emitted) :
               LET p == emitted[k][2]
               IN /\ box_results[k].label = emitted[k][1]
                  /\ box_results[k].score = Conf(p, emitted[k][1])
                  /\ box_results[k].w = DecodedNow(p)[3]
                  /\ box_results[k].h = DecodedNow(p)[4]
                  /\ box_results[k].x = DecodedNow(p)[1] - DecodedNow(p)[3] \div 2
                  /\ box_results[k].y = DecodedNow(p)[2] - DecodedNow(p)[4] \div 2
                  /\ Len(mask_results[k]) = PROTO_C
                  /\ \A c \in 1..PROTO_C :
                       mask_results[k][c] = mask_data[p * PROTO_C + (c - 1)]

\* C16 witness: detect() has emitted two detections of one class from
\* different priors, the second of them from a prior that an earlier class
\* had decoded
C16_Witness ==
  /\ pc = "done"
  /\ Len(indices[2]) = 2
  /\ indices[2][1] # indices[2][2]
  /\ indices[2][2] \in Candidates(1)
  /\ Len(mask_results) >= 2
  /\ mask_results[Len(mask_results)] # mask_results[Len(mask_results) - 1]

\* The pyramid level for which create_priors wrote the box of index n
LevelOfPrior(n) ==
  CHOOSE k \in 0..(Len(level_first) - 1) :
    /\ level_first[k + 1] <= n
    /\ k + 1 = Len(level_first) \/ n < level_first[k + 2]

\* The copy c = << tensor index, first float, floats >> wrote the floats of
\* row n of the host buffer, as one row of the tensor
CopyCoversRow(c, n) ==
  /\ c[2] <= n * copy_channels
  /\ (n + 1) * copy_channels <= c[2] + c[3]
  /\ (n * copy_channels - c[2]) % copy_channels = 0

(* C17: the row offsets tensor_offset = {0, 14283, 17958, 18930, 19173} of  *)
(* copy_data equal the index of the first prior create_priors generates for *)
(* levels 0..4 (3 times the sum of F_m^2 over the earlier levels), so the   *)
(* five per-level tensors tile the prior indices 0..19247 with no gap and   *)
(* no overlap and row i of a host buffer belongs to prior i.               *)
C17_OffsetsMatchLevels ==
  /\ tensor_offset_full = << 0, 14283, 17958, 18930, 19173 >>
  /\ \A k \in 1..Len(tensor_offset_full) : tensor_offset_full[k] = BoxesBefore(k - 1)
  /\ \A k \in 1..Len(level_first) : level_first[k] = tensor_offset_full[k]
  /\ prior_pc = "copy" => Len(level_first) = Len(tensor_offset_full)
  /\ \A c \in copied :
       /\ c[2] = level_first[c[1] + 1] * copy_channels
       /\ c[2] + c[3] <= NUM_PRIORS_full * copy_channels
       /\ \A d \in copied \ {c} : c[2] + c[3] <= d[2] \/ d[2] + d[3] <= c[2]
  /\ Cardinality(copied) = Len(tensor_offset_full) =>
       \A n \in 0..(NUM_PRIORS_full - 1) :
         /\ Cardinality({c \in copied : CopyCoversRow(c, n)}) = 1
         /\ \A c \in copied : CopyCoversRow(c, n) => c[1] = LevelOfPrior(n)

\* C17 witness: create_priors has returned and the five per-level tensors of
\* the confidence buffer have been copied
C17_Witness ==
  /\ prior_pc = "copy"
  /\ prior_ptr = NUM_PRIORS_full
  /\ copy_channels = NUM_CLASSES
  /\ Cardinality(copied) = Len(tensor_offset_full)
  /\ \E c \in copied : c[1] = 4 /\ c[2] = 19173 * NUM_CLASSES /\ c[3] = 75 * NUM_CLASSES

====
